---- MODULE Spec2Model ----
(***************************************************************************)
(* Model of p5_fx_option.py: the Garman-Kohlhagen FX option calculator.    *)
(*                                                                         *)
(* Two harnesses share the module.  SpecYears calls years_apart on a pair  *)
(* of calendar dates and follows its whole-year loop step by step.         *)
(* SpecPrice calls fx_option_price and follows it line by line.            *)
(*                                                                         *)
(* Numbers.  A term is kept exactly, as a count of 1/365 years: the value  *)
(* num_years + days / 365 is the integer num_years * 365 + days.  Python   *)
(* exceptions are values: every computation returns a record               *)
(* [ok, v, err].  math.log, math.sqrt, math.exp and norm.cdf are library   *)
(* functions over the reals; they are modelled by integer fixed-point      *)
(* stand-ins that keep their domains, their signs and (for the cdf) the    *)
(* symmetry cdf(x) + cdf(-x) = 1.                                          *)
(***************************************************************************)
EXTENDS Integers, Sequences, FiniteSets, TLC

VARIABLES
    \* years_apart(date1, date2)
    arg1, arg2,          \* the arguments as passed
    date1, date2,        \* the locals date1 (the cursor) and date2
    next_year,           \* result of date(date1.year + 1, ...)
    num_years,           \* whole-year counter
    final_days,          \* (date2 - date1).days at line 32
    iters,               \* times the loop body has run
    ypc,                 \* "start", "loop", "done", "failed", "idle"
    yres,                \* what the call returned or raised
    \* fx_option_price(call, strike, expiration, spot_date, spot, ...)
    call, strike, expiration, spot_date, spot, volatility,
    domestic_rate, foreign_rate,
    t, d1, d2, disc_spot, disc_strike, price,
    ppc,                 \* the line about to run, "done", "failed", "idle"
    failed_at,           \* the step that raised
    trace_fn, trace_args \* the calls made so far, in order

yvars == <<arg1, arg2, date1, date2, next_year, num_years, final_days,
           iters, ypc, yres>>
pvars == <<call, strike, expiration, spot_date, spot, volatility,
           domestic_rate, foreign_rate, t, d1, d2, disc_spot, disc_strike,
           price, ppc, failed_at, trace_fn, trace_args>>
vars == <<yvars, pvars>>

----------------------------------------------------------------------------
(* Bounds of the model *)

YearSpan == 3
MaxAmount == 2
MaxVol == 1

(* Program and library constants *)

MINYEAR == 1
MAXYEAR == 9999
DaysPerYear == 365
CdfHalf == 256
ExpOne == 8

----------------------------------------------------------------------------
(* Results and exceptions *)

Ok(x) == [ok |-> TRUE, v |-> x, err |-> "none"]
Raise(e) == [ok |-> FALSE, v |-> 0, err |-> e]
Unset == [ok |-> FALSE, v |-> 0, err |-> "unset"]

DateValueError == "ValueError: day or year is out of range"
MathDomainError == "ValueError: math domain error"
ZeroDivisionError == "ZeroDivisionError"

----------------------------------------------------------------------------
(* datetime.date *)

IsLeap(y) == (y % 4 = 0) /\ ((y % 100 # 0) \/ (y % 400 = 0))

DaysInMonth(y, m) ==
    IF m = 2 THEN (IF IsLeap(y) THEN 29 ELSE 28)
    ELSE IF m \in {4, 6, 9, 11} THEN 30 ELSE 31

ValidDate(y, m, d) ==
    /\ y \in MINYEAR..MAXYEAR
    /\ m \in 1..12
    /\ d \in 1..DaysInMonth(y, m)

MkDate(y, m, d) == [year |-> y, month |-> m, day |-> d]

\* date(y, m, d): the constructor raises ValueError outside the calendar
DateCtor(y, m, d) ==
    IF ValidDate(y, m, d) THEN Ok(MkDate(y, m, d))
    ELSE [ok |-> FALSE, v |-> MkDate(0, 0, 0), err |-> DateValueError]

DaysBeforeYear(y) ==
    LET p == y - 1 IN p * 365 + p \div 4 - p \div 100 + p \div 400

DaysBeforeMonth(y, m) ==
    LET cum == <<0, 31, 59, 90, 120, 151, 181, 212, 243, 273, 304, 334>>
    IN cum[m] + (IF m > 2 /\ IsLeap(y) THEN 1 ELSE 0)

ToOrdinal(dt) ==
    DaysBeforeYear(dt.year) + DaysBeforeMonth(dt.year, dt.month) + dt.day

\* a <= b and a > b on dates: by (year, month, day)
DateLe(a, b) ==
    \/ a.year < b.year
    \/ a.year = b.year /\ a.month < b.month
    \/ a.year = b.year /\ a.month = b.month /\ a.day <= b.day

DateGt(a, b) == ~DateLe(a, b)

\* (b - a).days
DaysBetween(a, b) == ToOrdinal(b) - ToOrdinal(a)

----------------------------------------------------------------------------
(* years_apart *)

\* lines 24-25, as written without the exchange
OrderDatesNoSwap(a, b) == <<a, b>>

\* lines 24-25: if date1 > date2: date1, date2 = date2, date1
OrderDates(a, b) == IF DateGt(a, b) THEN <<b, a>> ELSE <<a, b>>

\* lines 26 and 31, without the year + 1
NextYearOfSameYear(dt) == DateCtor(dt.year, dt.month, dt.day)

\* lines 26 and 31: date(date1.year + 1, date1.month, date1.day)
NextYearOf(dt) == DateCtor(dt.year + 1, dt.month, dt.day)

\* line 28: while next_year <= date2
LoopCond(ny, later) == DateLe(ny, later)

\* line 33 with a 360-day year
YearFraction360(whole, days) == whole * 360 + days

\* line 33: num_years += final_year.days / 365, in 1/365 years
YearFraction(whole, days) == whole * DaysPerYear + days

RECURSIVE WholeYears(_, _, _)
\* lines 28-34 from a cursor whose next_year is still to be built
WholeYears(cursor, whole, later) ==
    LET ny == NextYearOf(cursor) IN
    IF ~ny.ok THEN Raise(ny.err)
    ELSE IF LoopCond(ny.v, later) THEN WholeYears(ny.v, whole + 1, later)
    ELSE Ok(YearFraction(whole, DaysBetween(cursor, later)))

\* the whole function, lines 24-34
YearsApart(a, b) ==
    LET o == OrderDates(a, b) IN WholeYears(o[1], 0, o[2])

----------------------------------------------------------------------------
(* The years_apart harness *)

Years == (MAXYEAR - YearSpan)..MAXYEAR
SampleMonths == {1, 2, 3, 12}
SampleDays == {1, 28, 29, 31}

Dates ==
    {MkDate(y, m, d) : <<y, m, d>> \in
        {x \in Years \X SampleMonths \X SampleDays :
            ValidDate(x[1], x[2], x[3])}}

PIdle ==
    /\ call = FALSE /\ strike = 0 /\ spot = 0 /\ volatility = 0
    /\ domestic_rate = 0 /\ foreign_rate = 0
    /\ expiration = MkDate(MAXYEAR, 1, 1) /\ spot_date = MkDate(MAXYEAR, 1, 1)
    /\ t = Unset /\ d1 = Unset /\ d2 = Unset
    /\ disc_spot = Unset /\ disc_strike = Unset /\ price = Unset
    /\ ppc = "idle" /\ failed_at = "none"
    /\ trace_fn = <<>> /\ trace_args = <<>>

InitYears ==
    /\ arg1 \in Dates
    /\ arg2 \in Dates
    /\ date1 = arg1
    /\ date2 = arg2
    /\ next_year = DateCtor(0, 0, 0)
    /\ num_years = 0
    /\ final_days = 0
    /\ iters = 0
    /\ ypc = "start"
    /\ yres = Unset
    /\ PIdle

\* lines 24-27
YA_Enter ==
    /\ ypc = "start"
    /\ LET o == OrderDates(date1, date2)
           ny == NextYearOf(o[1])
       IN /\ date1' = o[1]
          /\ date2' = o[2]
          /\ next_year' = ny
          /\ num_years' = 0
          /\ IF ny.ok
             THEN ypc' = "loop" /\ yres' = yres
             ELSE ypc' = "failed" /\ yres' = Raise(ny.err)
    /\ UNCHANGED <<arg1, arg2, final_days, iters, pvars>>

\* lines 28-31: one run of the loop body
YA_LoopBody ==
    /\ ypc = "loop"
    /\ LoopCond(next_year.v, date2)
    /\ LET ny == NextYearOf(next_year.v)
       IN /\ date1' = next_year.v
          /\ num_years' = num_years + 1
          /\ iters' = iters + 1
          /\ next_year' = ny
          /\ IF ny.ok
             THEN ypc' = "loop" /\ yres' = yres
             ELSE ypc' = "failed" /\ yres' = Raise(ny.err)
    /\ UNCHANGED <<arg1, arg2, date2, final_days, pvars>>

\* lines 28 (condition false) and 32-34
YA_Exit ==
    /\ ypc = "loop"
    /\ ~LoopCond(next_year.v, date2)
    /\ final_days' = DaysBetween(date1, date2)
    /\ yres' = Ok(YearFraction(num_years, DaysBetween(date1, date2)))
    /\ ypc' = "done"
    /\ UNCHANGED <<arg1, arg2, date1, date2, next_year, num_years, iters,
                   pvars>>

\* the earlier of the two arguments
YearsApartEarlier == OrderDates(arg1, arg2)[1]

NextYears == YA_Enter \/ YA_LoopBody \/ YA_Exit

SpecYears == InitYears /\ [][NextYears]_vars

\* the interpreter runs the call to its end: a step that can be taken is taken
FairSpecYears == SpecYears /\ WF_vars(NextYears)

YTerminal == ypc \in {"done", "failed"}

\* the step machine and the function agree on every finished call
YearsMachineAgrees == YTerminal => yres = YearsApart(arg1, arg2)

----------------------------------------------------------------------------
(* math and scipy.stats.norm, in integer fixed point *)

Abs(x) == IF x < 0 THEN -x ELSE x

RECURSIVE ILog2(_)
ILog2(n) == IF n <= 1 THEN 0 ELSE 1 + ILog2(n \div 2)

ISqrt(n) == CHOOSE r \in 0..n : r * r <= n /\ (r + 1) * (r + 1) > n

\* x / y on numbers: the quotient is kept as the pair <<x, y>>
Divide(x, y) == IF y = 0 THEN Raise(ZeroDivisionError) ELSE Ok(<<x, y>>)

\* math.log of a quotient: defined for a positive quotient only
MathLog(q) ==
    IF q[1] * q[2] <= 0 THEN Raise(MathDomainError)
    ELSE Ok(ILog2(Abs(q[1])) - ILog2(Abs(q[2])))

\* math.sqrt: defined from 0 on, and 0 only at 0
MathSqrt(x) == IF x < 0 THEN Raise(MathDomainError) ELSE Ok(ISqrt(x))

\* math.exp: positive everywhere, ExpOne at 0, increasing
MathExp(x) ==
    IF x >= 0 THEN ExpOne + x
    ELSE 1 + ((ExpOne - 1) * ExpOne) \div (ExpOne - x)

\* norm.cdf: from 0 to CdfOne, CdfHalf at 0, cdf(x) + cdf(-x) = CdfOne
CdfOne == 2 * CdfHalf

NormCdf(x) ==
    IF x <= -CdfHalf THEN 0
    ELSE IF x >= CdfHalf THEN CdfOne
    ELSE CdfHalf + x

----------------------------------------------------------------------------
(* discount, fx_option_d1, fx_option_d2, fx_option_price *)

\* line 45: math.exp(-rate * term)
Discount(rate, term) == MathExp(-rate * term)

\* lines 53-57 with log(spot) - log(strike) in place of log(spot / strike)
FxOptionD1LogDiff(k, term, s, vol, dom, for) ==
    IF s <= 0 \/ k <= 0 THEN Raise(MathDomainError)
    ELSE LET sq == MathSqrt(term)
             numerator ==
                 2 * DaysPerYear * (ILog2(s) - ILog2(k))
                     + (2 * (dom - for) + vol * vol) * term
             denominator == vol * sq.v
         IN IF ~sq.ok THEN Raise(sq.err)
            ELSE IF denominator = 0 THEN Raise(ZeroDivisionError)
            ELSE Ok(numerator \div denominator)

\* lines 53-57; numerator and denominator are scaled to stay whole numbers
FxOptionD1(k, term, s, vol, dom, for) ==
    LET q == Divide(s, k) IN
    IF ~q.ok THEN Raise(q.err)
    ELSE LET lg == MathLog(q.v) IN
    IF ~lg.ok THEN Raise(lg.err)
    ELSE LET sq == MathSqrt(term) IN
    IF ~sq.ok THEN Raise(sq.err)
    ELSE LET numerator ==
                 2 * DaysPerYear * lg.v + (2 * (dom - for) + vol * vol) * term
             denominator == vol * sq.v
         IN IF denominator = 0 THEN Raise(ZeroDivisionError)
            ELSE Ok(numerator \div denominator)

\* line 65: d1 - volatility * math.sqrt(term)
FxOptionD2(term, vol, dd1) ==
    LET sq == MathSqrt(term) IN
    IF ~sq.ok THEN Raise(sq.err) ELSE Ok(dd1 - vol * sq.v)

\* lines 95-98
PriceFormula(c, ds, dk, dd1, dd2) ==
    IF c THEN ds * NormCdf(dd1) - dk * NormCdf(dd2)
    ELSE dk * NormCdf(-dd2) - ds * NormCdf(-dd1)

\* lines 96 and 98: the arguments of the two norm.cdf calls, in order
CdfArgs(c, dd1, dd2) == IF c THEN <<dd1, dd2>> ELSE <<-dd2, -dd1>>

\* the whole function, lines 87-99
FxOptionPrice(c, k, exp, sd, s, vol, dom, for) ==
    LET tt == YearsApart(sd, exp) IN
    IF ~tt.ok THEN Raise(tt.err)
    ELSE LET dd1 == FxOptionD1(k, tt.v, s, vol, dom, for) IN
    IF ~dd1.ok THEN Raise(dd1.err)
    ELSE LET dd2 == FxOptionD2(tt.v, vol, dd1.v) IN
    IF ~dd2.ok THEN Raise(dd2.err)
    ELSE Ok(PriceFormula(c, s * Discount(for, tt.v), k * Discount(dom, tt.v),
                         dd1.v, dd2.v))

\* lines 87-99 with d2 computed after the first discount factor
PricerStepsD2Late ==
    <<"years_apart", "d1", "disc_spot", "d2", "disc_strike", "price">>

\* lines 87-99: the statements of fx_option_price in program order
PricerSteps ==
    <<"years_apart", "d1", "d2", "disc_spot", "disc_strike", "price">>

\* the statement after `step`, or "done" after the last one
After(step) ==
    LET i == CHOOSE j \in 1..Len(PricerSteps) : PricerSteps[j] = step
    IN IF i = Len(PricerSteps) THEN "done" ELSE PricerSteps[i + 1]

----------------------------------------------------------------------------
(* The fx_option_price harness *)

Amounts == (-MaxAmount)..MaxAmount
Volatilities == 0..MaxVol
Rates == {-1, 0, 1}

PriceDates ==
    { MkDate(MAXYEAR - 3, 2, 29), MkDate(MAXYEAR - 2, 1, 1),
      MkDate(MAXYEAR - 1, 1, 1), MkDate(MAXYEAR - 1, 3, 1),
      MkDate(MAXYEAR, 6, 1) }

YIdle ==
    /\ arg1 = MkDate(MAXYEAR, 1, 1) /\ arg2 = MkDate(MAXYEAR, 1, 1)
    /\ date1 = arg1 /\ date2 = arg2
    /\ next_year = DateCtor(0, 0, 0)
    /\ num_years = 0 /\ final_days = 0 /\ iters = 0
    /\ ypc = "idle" /\ yres = Unset

InitPrice ==
    /\ call \in BOOLEAN
    /\ strike \in Amounts
    /\ spot \in Amounts
    /\ volatility \in Volatilities
    /\ domestic_rate \in Rates
    /\ foreign_rate \in Rates
    /\ expiration \in PriceDates
    /\ spot_date \in PriceDates
    /\ t = Unset /\ d1 = Unset /\ d2 = Unset
    /\ disc_spot = Unset /\ disc_strike = Unset /\ price = Unset
    /\ ppc = PricerSteps[1]
    /\ failed_at = "none"
    /\ trace_fn = <<>> /\ trace_args = <<>>
    /\ YIdle

\* a statement that called fn(args) and got r: go on, or stop at the raise
Stepped(step, fn, args, r) ==
    /\ trace_fn' = Append(trace_fn, fn)
    /\ trace_args' = Append(trace_args, args)
    /\ IF r.ok
       THEN ppc' = After(step) /\ failed_at' = failed_at
       ELSE ppc' = "failed" /\ failed_at' = step
    /\ UNCHANGED <<call, strike, expiration, spot_date, spot, volatility,
                   domestic_rate, foreign_rate, yvars>>

\* line 87
P_YearsApart ==
    /\ ppc = "years_apart"
    /\ t' = YearsApart(spot_date, expiration)
    /\ Stepped("years_apart", "years_apart",
               <<ToOrdinal(spot_date), ToOrdinal(expiration)>>, t')
    /\ UNCHANGED <<d1, d2, disc_spot, disc_strike, price>>

\* line 89
P_D1 ==
    /\ ppc = "d1"
    /\ d1' = FxOptionD1(strike, t.v, spot, volatility, domestic_rate,
                        foreign_rate)
    /\ Stepped("d1", "fx_option_d1",
               <<strike, t.v, spot, volatility, domestic_rate, foreign_rate>>,
               d1')
    /\ UNCHANGED <<t, d2, disc_spot, disc_strike, price>>

\* line 91
P_D2 ==
    /\ ppc = "d2"
    /\ d2' = FxOptionD2(t.v, volatility, d1.v)
    /\ Stepped("d2", "fx_option_d2", <<t.v, volatility, d1.v>>, d2')
    /\ UNCHANGED <<t, d1, disc_spot, disc_strike, price>>

\* line 93
P_DiscSpot ==
    /\ ppc = "disc_spot"
    /\ disc_spot' = Ok(spot * Discount(foreign_rate, t.v))
    /\ Stepped("disc_spot", "discount", <<foreign_rate, t.v>>, disc_spot')
    /\ UNCHANGED <<t, d1, d2, disc_strike, price>>

\* line 94
P_DiscStrike ==
    /\ ppc = "disc_strike"
    /\ disc_strike' = Ok(strike * Discount(domestic_rate, t.v))
    /\ Stepped("disc_strike", "discount", <<domestic_rate, t.v>>, disc_strike')
    /\ UNCHANGED <<t, d1, d2, disc_spot, price>>

\* lines 95-99
P_Price ==
    /\ ppc = "price"
    /\ price' = Ok(PriceFormula(call, disc_spot.v, disc_strike.v, d1.v, d2.v))
    /\ trace_fn' = trace_fn \o <<"norm.cdf", "norm.cdf">>
    /\ trace_args' = trace_args \o
           << <<CdfArgs(call, d1.v, d2.v)[1]>>,
              <<CdfArgs(call, d1.v, d2.v)[2]>> >>
    /\ ppc' = After("price")
    /\ UNCHANGED <<call, strike, expiration, spot_date, spot, volatility,
                   domestic_rate, foreign_rate, t, d1, d2, disc_spot,
                   disc_strike, failed_at, yvars>>

NextPrice ==
    P_YearsApart \/ P_D1 \/ P_D2 \/ P_DiscSpot \/ P_DiscStrike \/ P_Price

SpecPrice == InitPrice /\ [][NextPrice]_vars

PTerminal == ppc \in {"done", "failed"}

\* the step machine and the function agree on every finished call
PriceMachineAgrees ==
    PTerminal =>
        LET r == FxOptionPrice(call, strike, expiration, spot_date, spot,
                               volatility, domestic_rate, foreign_rate)
        IN IF ppc = "done" THEN price = r
           ELSE ~r.ok /\ r.err \in {t.err, d1.err, d2.err}

----------------------------------------------------------------------------
(* Claims about years_apart *)

\* whole calendar years from a to b when b is a on a later (or the same) year
SameDayLaterYear(a, b) ==
    a.month = b.month /\ a.day = b.day /\ a.year <= b.year

\* C1 (as stated): for every date D and N >= 0, years_apart(D, D + N calendar
\* years) returns exactly N.0; in particular years_apart(D, D) returns 0.0 for
\* every D, 29 February and the last representable year included.
C1_ExactYears ==
    (YTerminal /\ SameDayLaterYear(arg1, arg2))
        => yres = Ok((arg2.year - arg1.year) * DaysPerYear)

\* C2: years_apart(a, b) and years_apart(b, a) have the identical outcome,
\* the same returned value or the same failure.
C2_Symmetric == YTerminal => yres = YearsApart(arg2, arg1)

C2_Witness ==
    /\ ypc = "done"
    /\ DateGt(arg1, arg2)
    /\ yres.v > 0
    /\ yres = YearsApart(arg2, arg1)

\* the n-th anniversary of a, as a (year, month, day) triple that need not be
\* a date of the calendar
Anniversary(a, n) == MkDate(a.year + n, a.month, a.day)

\* the number of anniversaries of a that are <= b
AnniversariesUpTo(a, b) ==
    Cardinality({n \in 1..(b.year - a.year) : DateLe(Anniversary(a, n), b)})

\* C3 (as stated): for every pair a <= b, years_apart(a, b) = K + R/365 with K
\* the number of anniversaries of a that are <= b and R the days from the K-th
\* anniversary to b.
C3_WholePlusFraction ==
    (YTerminal /\ DateLe(arg1, arg2))
        => LET K == AnniversariesUpTo(arg1, arg2)
               R == DaysBetween(Anniversary(arg1, K), arg2)
           IN yres = Ok(K * DaysPerYear + R)

\* C9: the whole-year loop terminates: the cursor strictly increases on every
\* iteration and never exceeds the later date, the body runs at most
\* (b.year - a.year) times, and the call returns or fails.
C9_LoopTerminates ==
    /\ [](ypc # "start" =>
            /\ DateLe(date1, date2)
            /\ iters <= date2.year - YearsApartEarlier.year)
    /\ [][iters' = iters + 1 =>
            /\ DateGt(date1', date1)
            /\ DateLe(date1', date2')]_vars
    /\ <>YTerminal

C9_Witness == ypc = "done" /\ iters = 2 /\ iters = arg2.year - arg1.year

\* C10: for a <= b <= c on which years_apart returns,
\* years_apart(a, b) <= years_apart(a, c), also across an anniversary where
\* the day count falls from up to 365 back to 0.
C10_Monotone ==
    (ypc = "done" /\ DateLe(arg1, arg2))
        => \A c \in Dates :
              (DateLe(arg2, c) /\ YearsApart(arg1, c).ok)
                  => yres.v <= YearsApart(arg1, c).v

C10_Witness ==
    /\ ypc = "done"
    /\ DateLe(arg1, arg2)
    /\ final_days = 365
    /\ \E c \in Dates :
          /\ DateLe(arg2, c)
          /\ YearsApart(arg1, c) = Ok((num_years + 1) * DaysPerYear)

----------------------------------------------------------------------------
(* Claims about fx_option_price *)

ValidParameters ==
    spot > 0 /\ strike > 0 /\ volatility > 0 /\ expiration # spot_date

\* call price minus put price equals discounted spot minus discounted strike
PutCallParity ==
    LET c == FxOptionPrice(TRUE, strike, expiration, spot_date, spot,
                           volatility, domestic_rate, foreign_rate)
        p == FxOptionPrice(FALSE, strike, expiration, spot_date, spot,
                           volatility, domestic_rate, foreign_rate)
    IN /\ c.ok
       /\ p.ok
       /\ price = (IF call THEN c ELSE p)
       /\ c.v - p.v =
              (spot * Discount(foreign_rate, t.v)
                   - strike * Discount(domestic_rate, t.v)) * CdfOne

\* parity holds of every call that returns a price
ParityWhenPriced == ppc = "done" => PutCallParity

\* C4 (as stated): for every valid parameter set (spot > 0, strike > 0,
\* volatility > 0, expiration different from the valuation date) the call
\* price minus the put price equals spot * discount(foreign_rate, t)
\* - strike * discount(domestic_rate, t).
C4_ParityForEveryValidSet ==
    (PTerminal /\ ValidParameters) => (ppc = "done" /\ PutCallParity)

\* fx_option_d1 has been called and has returned or raised
D1Acted == d1 # Unset

\* C5 (as stated): whenever spot <= 0 or strike <= 0, fx_option_d1 fails
\* with a logarithm domain error, whatever the signs of the two.
C5_DomainErrorWheneverNonPositive ==
    (D1Acted /\ (spot <= 0 \/ strike <= 0)) => d1 = Raise(MathDomainError)

\* C5 (amended): fx_option_d1 fails with a logarithm domain error exactly
\* when strike # 0 and spot / strike <= 0 (spot zero, or spot and strike of
\* opposite signs); with strike = 0 it fails with a division by zero in
\* spot / strike; with spot and strike both negative the logarithm raises
\* nothing and d1 returns a value unless its denominator is zero.  In the
\* failing cases fx_option_price returns no price.
C5_DomainErrorByQuotient ==
    /\ D1Acted =>
        /\ (strike = 0) => d1 = Raise(ZeroDivisionError)
        /\ (strike # 0 /\ spot * strike <= 0) => d1 = Raise(MathDomainError)
        /\ (d1 = Raise(MathDomainError)) => (strike # 0 /\ spot * strike <= 0)
        /\ (spot < 0 /\ strike < 0) =>
               IF volatility = 0 \/ t.v = 0
               THEN d1 = Raise(ZeroDivisionError)
               ELSE d1.ok
    /\ (PTerminal /\ (spot = 0 \/ strike = 0 \/ spot * strike < 0))
           => ppc = "failed"

C5_Witness ==
    /\ ppc = "failed"
    /\ failed_at = "d1"
    /\ spot < 0
    /\ strike > 0
    /\ d1 = Raise(MathDomainError)

\* C6 (as stated): for spot > 0 and strike > 0, fx_option_price fails with a
\* division by zero raised in the d1 computation whenever volatility = 0 or
\* the expiration date equals the valuation date, for every such date.
C6_ZeroDivisionInD1 ==
    (PTerminal /\ spot > 0 /\ strike > 0
        /\ (volatility = 0 \/ expiration = spot_date))
    => (ppc = "failed" /\ failed_at = "d1" /\ d1 = Raise(ZeroDivisionError))

\* C7 (as stated): the only errors fx_option_price ends in are the logarithm
\* domain error and the division by zero of the d1 computation; for every
\* pair of dates no step before or after d1 fails, so a valid parameter set
\* always returns a price.
C7_OnlyD1Errors ==
    PTerminal =>
        /\ (ppc = "failed") =>
               /\ failed_at = "d1"
               /\ d1.err \in {MathDomainError, ZeroDivisionError}
        /\ ValidParameters => ppc = "done"

\* the calls of a completed invocation, in order
FullTraceFn ==
    <<"years_apart", "fx_option_d1", "fx_option_d2", "discount", "discount",
      "norm.cdf", "norm.cdf">>

\* the calls made when the statement `step` is the next to run
CallsBefore(step) ==
    CASE step = "years_apart" -> 0
      [] step = "d1" -> 1
      [] step = "d2" -> 2
      [] step = "disc_spot" -> 3
      [] step = "disc_strike" -> 4
      [] step = "price" -> 5
      [] OTHER -> 7

\* C8: within one invocation years_apart runs once, then fx_option_d1 once,
\* then fx_option_d2 once on the d1 just computed and the same term, then
\* discount twice (foreign_rate, then domestic_rate, both on that term), and
\* only then the normal cdf; when a step fails no later step runs.
C8_FixedOrder ==
    /\ ppc # "failed" =>
           trace_fn = SubSeq(FullTraceFn, 1, CallsBefore(ppc))
    /\ ppc = "failed" =>
           /\ trace_fn = SubSeq(FullTraceFn, 1, CallsBefore(failed_at) + 1)
           /\ price = Unset
           /\ (failed_at = "years_apart") => d1 = Unset
           /\ (failed_at \in {"years_apart", "d1"}) =>
                  (d2 = Unset /\ disc_spot = Unset /\ disc_strike = Unset)
    /\ Len(trace_args) = Len(trace_fn)
    /\ Len(trace_fn) >= 1 =>
           trace_args[1] = <<ToOrdinal(spot_date), ToOrdinal(expiration)>>
    /\ Len(trace_fn) >= 2 =>
           trace_args[2] = <<strike, t.v, spot, volatility, domestic_rate,
                             foreign_rate>>
    /\ Len(trace_fn) >= 3 => trace_args[3] = <<t.v, volatility, d1.v>>
    /\ Len(trace_fn) >= 4 => trace_args[4] = <<foreign_rate, t.v>>
    /\ Len(trace_fn) >= 5 => trace_args[5] = <<domestic_rate, t.v>>
    /\ Len(trace_fn) >= 7 =>
           /\ trace_args[6] = <<CdfArgs(call, d1.v, d2.v)[1]>>
           /\ trace_args[7] = <<CdfArgs(call, d1.v, d2.v)[2]>>

C8_Witness ==
    /\ ppc = "done"
    /\ trace_fn = FullTraceFn
    /\ domestic_rate # foreign_rate
    /\ t.v > DaysPerYear

====
